---- MODULE Spec2Model ----
(***************************************************************************)
(* ShowMe backend (backend/main.py): credential store, access policy and   *)
(* catalog store, modelled as a state machine over the persisted tables    *)
(* and the last HTTP response.                                             *)
(*                                                                         *)
(* Encodings.  Integer columns keep Python's values, with None written     *)
(* as -1 (row ids are SERIAL and start at 1, so -1 is never an id).        *)
(* Session tokens are hex strings in the code; here a token is a positive  *)
(* integer, the empty string is 0 and a missing header/parameter is None,  *)
(* so that Python's truthiness ("not token_value") is Truthy below.        *)
(* E-mails are sequences of one-character strings, so that strip() and     *)
(* lower() are computed rather than assumed.                               *)
(***************************************************************************)
EXTENDS Integers, Sequences, FiniteSets, TLC

VARIABLES
    users,           \* table users: sequence, users[i] is the row with id i
    tokens,          \* table session_tokens: token -> [user_id, last_used_at]
    nextToken,       \* number of the next value secrets.token_hex returns
    establishments,  \* table establishments: id -> row
    events,          \* table events: id -> row
    nextEstId,       \* SERIAL sequence of establishments.id
    nextEventId,     \* SERIAL sequence of events.id
    genres,          \* table genres: the ids of its rows
    artists,         \* table artists: the ids of its rows
    nextGenreId,     \* SERIAL sequence of genres.id
    nextArtistId,    \* SERIAL sequence of artists.id
    pending,         \* requests in flight, between their reads and their commit
    request,         \* the credentials of the request under test (SpecLookup)
    response         \* the last HTTP response sent

taxonomy == <<genres, artists, nextGenreId, nextArtistId>>
db == <<users, tokens, nextToken, establishments, events, nextEstId, nextEventId,
        taxonomy>>
credentialStore == <<users, tokens, nextToken>>
catalog == <<establishments, events, nextEstId, nextEventId, taxonomy>>
vars == <<users, tokens, nextToken, establishments, events, nextEstId,
          nextEventId, genres, artists, nextGenreId, nextArtistId,
          pending, request, response>>

-----------------------------------------------------------------------------
(* Bounds of the model *)

MaxTokens == 3      \* session tokens ever issued
MaxTime == 1        \* datetime.utcnow() returns a value in 0..MaxTime
MaxEst == 1         \* establishments ever inserted
MaxEvents == 1      \* events ever inserted
MaxPending == 2     \* requests in flight at once
MaxGenres == 2      \* genres ever inserted
MaxArtists == 1     \* artists ever inserted
MaxRows == 2        \* rows of a table in the databases of SpecRows

-----------------------------------------------------------------------------
(* Python values *)

None == -1
Empty == 0
\* None in a nullable String column
NoneStr == "<None>"

\* bool(x) of an Optional[int] / Optional[str] under the encoding above
Truthy(x) == x # None /\ x # 0
\* bool(s) of an Optional[str]
TruthyStr(s) == s # NoneStr /\ s # ""

Times == 0..MaxTime
TokenSpace == 1..MaxTokens

-----------------------------------------------------------------------------
(* E-mail normalisation and the allow-lists *)

UPPER == <<"A", "B", "C", "D", "E", "F", "G", "H", "I", "J", "K", "L", "M",
           "N", "O", "P", "Q", "R", "S", "T", "U", "V", "W", "X", "Y", "Z">>
LOWER == <<"a", "b", "c", "d", "e", "f", "g", "h", "i", "j", "k", "l", "m",
           "n", "o", "p", "q", "r", "s", "t", "u", "v", "w", "x", "y", "z">>

IsSpace(c) == c \in {" ", "\t", "\n", "\r"}

LowerChar(c) ==
    IF \E i \in 1..Len(UPPER) : UPPER[i] = c
    THEN LOWER[CHOOSE i \in 1..Len(UPPER) : UPPER[i] = c]
    ELSE c

RECURSIVE lstrip(_)
lstrip(s) == IF s # <<>> /\ IsSpace(Head(s)) THEN lstrip(Tail(s)) ELSE s

RECURSIVE rstrip(_)
rstrip(s) ==
    IF s # <<>> /\ IsSpace(s[Len(s)]) THEN rstrip(SubSeq(s, 1, Len(s) - 1)) ELSE s

strip(s) == rstrip(lstrip(s))

lower(s) == [i \in 1..Len(s) |-> LowerChar(s[i])]

\* (email or "").strip().lower()
normalize_email(email) == lower(strip(email))

\* os.getenv("ADMIN_EMAILS").split(","): one deployment's value, " R@x,"
ADMIN_EMAILS_ENV == {<<" ", "R", "@", "x">>, <<>>}
\* os.getenv("FULL_ACCESS_EMAILS") unset
FULL_ACCESS_EMAILS_ENV == {<<>>}

OWNER_EMAIL ==
    <<"j", "s", ".", "v", "i", "t", "o", "r", "t", "o", "n", "i", "o", "l", "o",
      "@", "h", "o", "t", "m", "a", "i", "l", ".", "c", "o", "m">>

ADMIN_EMAILS ==
    {lower(strip(e)) : e \in {x \in ADMIN_EMAILS_ENV : strip(x) # <<>>}}

FULL_ACCESS_EMAILS ==
    {lower(strip(e)) : e \in {x \in FULL_ACCESS_EMAILS_ENV : strip(x) # <<>>}}
        \cup {OWNER_EMAIL}

\* User.is_admin
is_admin(user) ==
    LET email == lower(strip(user.email))
    IN  email # <<>> /\ email \in ADMIN_EMAILS

is_admin_user(user) == is_admin(user)

has_full_access_user(user) ==
    LET email == lower(strip(user.email))
    IN  email # <<>> /\ email \in FULL_ACCESS_EMAILS

has_global_editing_access(user) == is_admin_user(user) \/ has_full_access_user(user)

-----------------------------------------------------------------------------
(* Passwords and tokens *)

\* sha256 hex digest, taken as injective on the passwords tried
hash_password(password) == <<"sha256", password>>

verify_password(plain_password, password_hash) ==
    hash_password(plain_password) = password_hash

\* db.query(User).filter(User.email == email).first()
UserByEmail(email) ==
    IF \E i \in DOMAIN users : users[i].email = email
    THEN CHOOSE i \in DOMAIN users : users[i].email = email
    ELSE None

\* the session_tokens table after create_session_token(user, db) at time now
create_session_token(user_id, now) ==
    [t \in DOMAIN tokens \cup {nextToken} |->
        IF t = nextToken THEN [user_id |-> user_id, last_used_at |-> now]
        ELSE tokens[t]]

\* the last exchange: the route served, the status and detail it answered, the
\* token it issued, and the user it answered for (the user in the body of the
\* auth routes, the current_user of the catalog routes), and the rows a read
\* returned
Resp(op, status, detail, token, user) ==
    [op |-> op, status |-> status, detail |-> detail, token |-> token, user |-> user,
     body |-> {}]

Forbidden(op, detail, user) == Resp(op, 403, detail, None, user)
NotFound(op, detail, user) == Resp(op, 404, detail, None, user)
\* an IntegrityError the route does not catch
ServerError(op, user) == Resp(op, 500, "Internal Server Error", None, user)

-----------------------------------------------------------------------------
(* get_current_user: the dependency every authenticated route runs first *)

\* a lookup that reads the X-Session-Token header before the bearer value
token_value_header_first(cred) ==
    IF Truthy(cred[2]) THEN cred[2]
    ELSE IF Truthy(cred[1]) THEN cred[1]
    ELSE cred[3]

\* HTTPBearer(auto_error=False): no credentials object without a bearer value
Credentials(bearer) == IF Truthy(bearer) THEN bearer ELSE None

\* cred = <<Authorization bearer value, X-Session-Token header, token query parameter>>
token_value(cred) ==
    LET credentials == Credentials(cred[1])
        t1 == IF credentials # None THEN credentials ELSE None
        t2 == IF ~Truthy(t1) THEN cred[2] ELSE t1
        t3 == IF ~Truthy(t2) THEN cred[3] ELSE t2
    IN  t3

Authenticated(cred) == Truthy(token_value(cred)) /\ token_value(cred) \in DOMAIN tokens

\* the 401 get_current_user raises; no commit has happened
Unauthorized(op, cred) ==
    IF ~Truthy(token_value(cred))
    THEN Resp(op, 401, "Autenticacao necessaria", None, None)
    ELSE Resp(op, 401, "Sessao invalida ou expirada", None, None)

\* session_token.user
current_user(cred) == tokens[token_value(cred)].user_id

\* an UPDATE without its WHERE clause: every session is stamped
TouchAllTokens(cred, now) ==
    [t \in DOMAIN tokens |-> [tokens[t] EXCEPT !.last_used_at = now]]

\* session_token.last_used_at = datetime.utcnow(); db.commit()
TouchToken(cred, now) ==
    [tokens EXCEPT ![token_value(cred)].last_used_at = now]

-----------------------------------------------------------------------------
(* Credential store routes *)

\* POST /auth/signup, the request served without interleaving
Signup(rawEmail, password, now) ==
    LET email == normalize_email(rawEmail)
        existing == UserByEmail(email)
    IN  /\ UNCHANGED <<catalog, pending, request>>
        /\ IF existing # None
           THEN /\ response' = Resp("signup", 400, "E-mail ja cadastrado", None, None)
                /\ UNCHANGED credentialStore
           ELSE /\ nextToken <= MaxTokens
                /\ users' = Append(users, [email |-> email,
                                           password_hash |-> hash_password(password)])
                /\ tokens' = create_session_token(Len(users) + 1, now)
                /\ nextToken' = nextToken + 1
                /\ response' = Resp("signup", 201, "", nextToken, Len(users) + 1)

Idle == [busy |-> FALSE, email |-> <<>>, password_hash |-> <<>>]

\* POST /auth/signup up to its SELECT: the request has seen no user with the e-mail
SignupQuery(slot, rawEmail, password) ==
    LET email == normalize_email(rawEmail)
        existing == UserByEmail(email)
    IN  /\ ~pending[slot].busy
        /\ UNCHANGED <<db, request>>
        /\ IF existing # None
           THEN /\ response' = Resp("signup", 400, "E-mail ja cadastrado", None, None)
                /\ UNCHANGED pending
           ELSE /\ pending' = [pending EXCEPT ![slot] =
                       [busy |-> TRUE, email |-> email,
                        password_hash |-> hash_password(password)]]
                /\ UNCHANGED response

\* POST /auth/signup from db.add(user); db.commit() on: users.email is UNIQUE, so
\* the INSERT of an e-mail committed meanwhile raises IntegrityError
SignupCommit(slot, now) ==
    /\ pending[slot].busy
    /\ pending' = [pending EXCEPT ![slot] = Idle]
    /\ UNCHANGED <<catalog, request>>
    /\ IF UserByEmail(pending[slot].email) # None
       THEN /\ response' = ServerError("signup", None)
            /\ UNCHANGED credentialStore
       ELSE /\ nextToken <= MaxTokens
            /\ users' = Append(users, [email |-> pending[slot].email,
                                       password_hash |-> pending[slot].password_hash])
            /\ tokens' = create_session_token(Len(users) + 1, now)
            /\ nextToken' = nextToken + 1
            /\ response' = Resp("signup", 201, "", nextToken, Len(users) + 1)

\* a login that tells an unknown e-mail (404) from a wrong password (401)
LoginLeaky(rawEmail, password, now) ==
    LET email == normalize_email(rawEmail)
        user == UserByEmail(email)
    IN  /\ UNCHANGED <<catalog, pending, request, users>>
        /\ IF user = None
           THEN /\ response' = Resp("login", 404, "Usuario nao encontrado", None, None)
                /\ UNCHANGED <<tokens, nextToken>>
           ELSE IF ~verify_password(password, users[user].password_hash)
           THEN /\ response' = Resp("login", 401, "Credenciais invalidas", None, None)
                /\ UNCHANGED <<tokens, nextToken>>
           ELSE /\ nextToken <= MaxTokens
                /\ tokens' = [t \in DOMAIN tokens \cup {nextToken} |->
                                 IF t = nextToken
                                 THEN [user_id |-> user, last_used_at |-> now]
                                 ELSE tokens[t]]
                /\ nextToken' = nextToken + 1
                /\ response' = Resp("login", 200, "", nextToken, user)

\* POST /auth/login
Login(rawEmail, password, now) ==
    LET email == normalize_email(rawEmail)
        user == UserByEmail(email)
    IN  /\ UNCHANGED <<catalog, pending, request, users>>
        /\ IF user = None \/ ~verify_password(password, users[user].password_hash)
           THEN /\ response' = Resp("login", 401, "Credenciais invalidas", None, None)
                /\ UNCHANGED <<tokens, nextToken>>
           ELSE /\ nextToken <= MaxTokens
                /\ tokens' = create_session_token(user, now)
                /\ nextToken' = nextToken + 1
                /\ response' = Resp("login", 200, "", nextToken, user)

\* GET /auth/me
AuthMe(cred, now) ==
    /\ UNCHANGED <<catalog, pending, request, users, nextToken>>
    /\ IF ~Authenticated(cred)
       THEN /\ response' = Unauthorized("auth_me", cred)
            /\ UNCHANGED tokens
       ELSE /\ tokens' = TouchToken(cred, now)
            /\ response' = Resp("auth_me", 200, "", None, current_user(cred))

\* a logout that closes every session of the token's user
DeleteUserTokens(value) ==
    [t \in {x \in DOMAIN tokens :
               value \notin DOMAIN tokens \/ tokens[x].user_id # tokens[value].user_id}
        |-> tokens[t]]

\* the rows left by db.query(SessionToken).filter(token == value).delete()
DeleteToken(value) == [t \in DOMAIN tokens \ {value} |-> tokens[t]]

\* POST /auth/logout
Logout(cred) ==
    LET credentials == Credentials(cred[1])
    IN  /\ UNCHANGED <<catalog, pending, request, users, nextToken>>
        /\ IF credentials = None
           THEN /\ response' = Resp("logout", 401, "Autenticacao necessaria", None, None)
                /\ UNCHANGED tokens
           ELSE /\ tokens' = DeleteToken(credentials)
                /\ response' = Resp("logout", 200, "Logout realizado", None, None)

-----------------------------------------------------------------------------
(* Access policy, as the routes inline it *)

\* the check without its "and not can_manage_all"
OwnedByOtherStrict(owner_id, user_id, can_manage_all) ==
    Truthy(owner_id) /\ owner_id # user_id

\* "if x.owner_id and x.owner_id != current_user.id and not can_manage_all"
OwnedByOther(owner_id, user_id, can_manage_all) ==
    Truthy(owner_id) /\ owner_id # user_id /\ ~can_manage_all

\* the claim left out
NeverClaim(owner_id, user_id) == owner_id

\* the assignment without its "if x.owner_id is None"
AlwaysClaim(owner_id, user_id) == user_id

\* "if x.owner_id is None: x.owner_id = current_user.id"
Claim(owner_id, user_id) == IF owner_id = None THEN user_id ELSE owner_id

\* a key payload.dict(exclude_unset=True) does not hold
UnsetInt == -2
UnsetStr == "<unset>"

UnsetList == <<UnsetInt>>
\* "genre_ids": null in the request body
NullList == <<None>>

Remove(table, ids) == [i \in DOMAIN table \ ids |-> table[i]]

\* Establishment(name=..., owner_id=...): the columns not given are NULL
Establishment(name, owner_id) ==
    [name |-> name, owner_id |-> owner_id, city |-> NoneStr,
     neighborhood |-> NoneStr, street |-> NoneStr, number |-> NoneStr]

\* Event(establishment_id=..., user_id=...): the columns not given are NULL and
\* the event has no genre and no artist
Event(establishment_id, user_id) ==
    [establishment_id |-> establishment_id, user_id |-> user_id,
     establishment_name |-> NoneStr, city |-> NoneStr, neighborhood |-> NoneStr,
     street |-> NoneStr, number |-> NoneStr, genres |-> {}, artists |-> {}]

Range(ids) == {ids[i] : i \in DOMAIN ids}

\* links that are added to the ones the event has
MergeLinks(links, table, ids) ==
    IF ids \in {UnsetList, NullList} THEN links
    ELSE links \cup {g \in table : g \in Range(ids)}

\* "if genre_ids is not None:
\*      event.genres = db.query(Genre).filter(Genre.id.in_(genre_ids)).all()"
ReplaceLinks(links, table, ids) ==
    IF ids \in {UnsetList, NullList} THEN links
    ELSE {g \in table : g \in Range(ids)}

-----------------------------------------------------------------------------
(* Catalog store routes: establishments *)

\* POST /establishments
CreateEstablishment(cred, now, name) ==
    /\ UNCHANGED <<taxonomy, pending, request, users, nextToken>>
    /\ IF ~Authenticated(cred)
       THEN /\ response' = Unauthorized("create_establishment", cred)
            /\ UNCHANGED <<tokens, catalog>>
       ELSE /\ nextEstId <= MaxEst
            /\ tokens' = TouchToken(cred, now)
            /\ establishments' = establishments @@
                   (nextEstId :> Establishment(name, current_user(cred)))
            /\ nextEstId' = nextEstId + 1
            /\ response' = Resp("create_establishment", 201, "", None, current_user(cred))
            /\ UNCHANGED <<events, nextEventId>>

\* PUT /establishments/{establishment_id}; payload.name is UnsetStr or a name
UpdateEstablishment(cred, now, establishment_id, payload) ==
    /\ UNCHANGED <<taxonomy, pending, request, users, nextToken, nextEstId, events, nextEventId>>
    /\ IF ~Authenticated(cred)
       THEN /\ response' = Unauthorized("update_establishment", cred)
            /\ UNCHANGED <<tokens, establishments>>
       ELSE LET user_id == current_user(cred)
                can_manage_all == has_global_editing_access(users[user_id])
            IN  /\ tokens' = TouchToken(cred, now)
                /\ IF establishment_id \notin DOMAIN establishments
                   THEN /\ response' = NotFound("update_establishment", "Estabelecimento nao encontrado", user_id)
                        /\ UNCHANGED establishments
                   ELSE LET est == establishments[establishment_id]
                        IN  IF OwnedByOther(est.owner_id, user_id, can_manage_all)
                            THEN /\ response' =
                                      Forbidden("update_establishment", "Voce nao pode editar este estabelecimento", user_id)
                                 /\ UNCHANGED establishments
                            ELSE /\ establishments' =
                                      [establishments EXCEPT ![establishment_id] =
                                          [est EXCEPT
                                             !.name = IF payload.name = UnsetStr
                                                      THEN est.name ELSE payload.name,
                                             !.owner_id = Claim(est.owner_id, user_id)]]
                                 /\ response' = Resp("update_establishment", 200, "", None, user_id)

\* a relationship without its cascade: no event goes with the establishment
NoCascade(establishment_id) == {}

\* the events db.delete(est) removes with it: relationship cascade="all,delete"
CascadeEvents(establishment_id) ==
    {e \in DOMAIN events : events[e].establishment_id = establishment_id}

\* DELETE /establishments/{establishment_id}
DeleteEstablishment(cred, now, establishment_id) ==
    /\ UNCHANGED <<taxonomy, pending, request, users, nextToken, nextEstId, nextEventId>>
    /\ IF ~Authenticated(cred)
       THEN /\ response' = Unauthorized("delete_establishment", cred)
            /\ UNCHANGED <<tokens, establishments, events>>
       ELSE LET user_id == current_user(cred)
                can_manage_all == has_global_editing_access(users[user_id])
            IN  /\ tokens' = TouchToken(cred, now)
                /\ IF establishment_id \notin DOMAIN establishments
                   THEN /\ response' = NotFound("delete_establishment", "Estabelecimento nao encontrado", user_id)
                        /\ UNCHANGED <<establishments, events>>
                   ELSE IF OwnedByOther(establishments[establishment_id].owner_id,
                                        user_id, can_manage_all)
                   THEN /\ response' =
                             Forbidden("delete_establishment", "Voce nao pode excluir este estabelecimento", user_id)
                        /\ UNCHANGED <<establishments, events>>
                   ELSE /\ establishments' = Remove(establishments, {establishment_id})
                        /\ events' = Remove(events, CascadeEvents(establishment_id))
                        /\ response' = Resp("delete_establishment", 204, "", None, user_id)

-----------------------------------------------------------------------------
(* Catalog store routes: events *)

\* the check create_event and update_event run on data.get("establishment_id"):
\* 0 when it passes, else the status raised
EstablishmentCheck(establishment_id, user_id, can_manage_all) ==
    IF ~Truthy(establishment_id) THEN 0
    ELSE IF establishment_id \notin DOMAIN establishments THEN 404
    ELSE IF OwnedByOther(establishments[establishment_id].owner_id, user_id,
                         can_manage_all) THEN 403
    ELSE 0

\* the establishments table once the check has passed and claimed
ClaimEstablishment(establishment_id, user_id) ==
    IF ~Truthy(establishment_id) THEN establishments
    ELSE [establishments EXCEPT ![establishment_id].owner_id =
              Claim(establishments[establishment_id].owner_id, user_id)]

\* events.establishment_id REFERENCES establishments(id): the INSERT/UPDATE is
\* refused, and the commit raises, when the value names no row
ForeignKeyViolated(establishment_id) ==
    establishment_id # None /\ establishment_id \notin DOMAIN establishments

\* POST /events
CreateEvent(cred, now, establishment_id) ==
    /\ UNCHANGED <<taxonomy, pending, request, users, nextToken, nextEstId>>
    /\ IF ~Authenticated(cred)
       THEN /\ response' = Unauthorized("create_event", cred)
            /\ UNCHANGED <<tokens, establishments, events, nextEventId>>
       ELSE LET user_id == current_user(cred)
                can_manage_all == has_global_editing_access(users[user_id])
                check == EstablishmentCheck(establishment_id, user_id, can_manage_all)
            IN  /\ tokens' = TouchToken(cred, now)
                /\ IF check = 404
                   THEN /\ response' = NotFound("create_event", "Estabelecimento nao encontrado", user_id)
                        /\ UNCHANGED <<establishments, events, nextEventId>>
                   ELSE IF check = 403
                   THEN /\ response' =
                             Forbidden("create_event", "Estabelecimento pertence a outro usuario", user_id)
                        /\ UNCHANGED <<establishments, events, nextEventId>>
                   ELSE IF ForeignKeyViolated(establishment_id)
                   THEN /\ response' = ServerError("create_event", user_id)
                        /\ UNCHANGED <<establishments, events, nextEventId>>
                   ELSE /\ nextEventId <= MaxEvents
                        /\ establishments' = ClaimEstablishment(establishment_id, user_id)
                        /\ events' = events @@
                               (nextEventId :> Event(establishment_id, user_id))
                        /\ nextEventId' = nextEventId + 1
                        /\ response' = Resp("create_event", 201, "", None, user_id)

\* PUT /events/{event_id}; payload.establishment_id is UnsetInt, None or a number
UpdateEvent(cred, now, event_id, payload) ==
    /\ UNCHANGED <<taxonomy, pending, request, users, nextToken, nextEstId, nextEventId>>
    /\ IF ~Authenticated(cred)
       THEN /\ response' = Unauthorized("update_event", cred)
            /\ UNCHANGED <<tokens, establishments, events>>
       ELSE LET user_id == current_user(cred)
                can_manage_all == has_global_editing_access(users[user_id])
                \* data.get("establishment_id")
                establishment_id == IF payload.establishment_id = UnsetInt
                                    THEN None ELSE payload.establishment_id
                check == EstablishmentCheck(establishment_id, user_id, can_manage_all)
            IN  /\ tokens' = TouchToken(cred, now)
                /\ IF event_id \notin DOMAIN events
                   THEN /\ response' = NotFound("update_event", "Evento nao encontrado", user_id)
                        /\ UNCHANGED <<establishments, events>>
                   ELSE IF OwnedByOther(events[event_id].user_id, user_id, can_manage_all)
                   THEN /\ response' = Forbidden("update_event", "Voce nao pode editar este evento", user_id)
                        /\ UNCHANGED <<establishments, events>>
                   ELSE IF check = 404
                   THEN /\ response' = NotFound("update_event", "Estabelecimento nao encontrado", user_id)
                        /\ UNCHANGED <<establishments, events>>
                   ELSE IF check = 403
                   THEN /\ response' =
                             Forbidden("update_event", "Estabelecimento pertence a outro usuario", user_id)
                        /\ UNCHANGED <<establishments, events>>
                   ELSE IF payload.establishment_id # UnsetInt
                           /\ ForeignKeyViolated(payload.establishment_id)
                   THEN /\ response' = ServerError("update_event", user_id)
                        /\ UNCHANGED <<establishments, events>>
                   ELSE LET event == events[event_id]
                        IN  /\ establishments' =
                                   ClaimEstablishment(establishment_id, user_id)
                            /\ events' = [events EXCEPT ![event_id] =
                                   [event EXCEPT
                                      !.establishment_id =
                                          IF payload.establishment_id = UnsetInt
                                          THEN event.establishment_id
                                          ELSE payload.establishment_id,
                                      !.user_id = Claim(event.user_id, user_id),
                                      !.genres = ReplaceLinks(event.genres, genres,
                                                              payload.genre_ids),
                                      !.artists = ReplaceLinks(event.artists, artists,
                                                               payload.artist_ids)]]
                            /\ response' = Resp("update_event", 200, "", None, user_id)

\* DELETE /events/{event_id}
DeleteEvent(cred, now, event_id) ==
    /\ UNCHANGED <<taxonomy, pending, request, users, nextToken, nextEstId, nextEventId, establishments>>
    /\ IF ~Authenticated(cred)
       THEN /\ response' = Unauthorized("delete_event", cred)
            /\ UNCHANGED <<tokens, events>>
       ELSE LET user_id == current_user(cred)
                can_manage_all == has_global_editing_access(users[user_id])
            IN  /\ tokens' = TouchToken(cred, now)
                /\ IF event_id \notin DOMAIN events
                   THEN /\ response' = NotFound("delete_event", "Evento nao encontrado", user_id)
                        /\ UNCHANGED events
                   ELSE IF OwnedByOther(events[event_id].user_id, user_id, can_manage_all)
                   THEN /\ response' = Forbidden("delete_event", "Voce nao pode excluir este evento", user_id)
                        /\ UNCHANGED events
                   ELSE /\ events' = Remove(events, {event_id})
                        /\ response' = Resp("delete_event", 204, "", None, user_id)

-----------------------------------------------------------------------------
(* Removal of a user.  No route removes a user; the row is removed in the    *)
(* database (or through the ORM), and the foreign keys declared on the other *)
(* tables say what goes with it.                                            *)

\* a foreign key without its ON DELETE action: the sessions stay
KeepTokens(user_id) == tokens

\* session_tokens.user_id: ondelete="CASCADE" (and cascade="all, delete-orphan")
CascadeTokens(user_id) ==
    [t \in {x \in DOMAIN tokens : tokens[x].user_id # user_id} |-> tokens[t]]

\* establishments.owner_id: ondelete="SET NULL"
DisownEstablishments(user_id) ==
    [i \in DOMAIN establishments |->
        IF establishments[i].owner_id = user_id
        THEN [establishments[i] EXCEPT !.owner_id = None]
        ELSE establishments[i]]

\* events.user_id: ondelete="SET NULL"
DisownEvents(user_id) ==
    [e \in DOMAIN events |->
        IF events[e].user_id = user_id
        THEN [events[e] EXCEPT !.user_id = None]
        ELSE events[e]]

\* DELETE FROM users WHERE id = user_id
DeleteUser(user_id) ==
    /\ user_id \in DOMAIN users
    /\ users' = Remove(users, {user_id})
    /\ tokens' = CascadeTokens(user_id)
    /\ establishments' = DisownEstablishments(user_id)
    /\ events' = DisownEvents(user_id)
    /\ UNCHANGED <<nextToken, nextEstId, nextEventId, taxonomy, pending, request,
                   response>>

-----------------------------------------------------------------------------
(* Updates as concurrent requests run them: the request reads the row,       *)
(* checks it and claims it in its session (the read step), and its commit    *)
(* writes what the session changed (the commit step); the steps of other     *)
(* requests come in between.  A slot serves one request and keeps its answer. *)

IdleUpdate ==
    [busy |-> FALSE, done |-> FALSE, kind |-> "", user_id |-> None, id |-> None,
     loaded |-> None, owner_id |-> None, name |-> UnsetStr, status |-> 0]

\* the slot of a request that has been answered
Answered(kind, user_id, id, status) ==
    [IdleUpdate EXCEPT !.done = TRUE, !.kind = kind, !.user_id = user_id, !.id = id,
                       !.status = status]

\* an UPDATE that sets the owner only where the column is still NULL
FlushIfNull(stored, loaded, current) ==
    IF current # loaded /\ stored = None THEN current ELSE stored

\* the owner column after the session's flush: the UPDATE sets the column when
\* the session changed the attribute after loading it, whatever the row holds
Flush(stored, loaded, current) == IF current # loaded THEN current ELSE stored

\* PUT /establishments/{establishment_id} up to its commit
UpdateEstablishmentRead(slot, cred, now, establishment_id, payload) ==
    /\ ~pending[slot].busy /\ ~pending[slot].done
    /\ UNCHANGED <<catalog, request, users, nextToken>>
    /\ IF ~Authenticated(cred)
       THEN /\ response' = Unauthorized("update_establishment", cred)
            /\ pending' = [pending EXCEPT ![slot] =
                   Answered("establishment", None, establishment_id, 401)]
            /\ UNCHANGED tokens
       ELSE LET user_id == current_user(cred)
                can_manage_all == has_global_editing_access(users[user_id])
            IN  /\ tokens' = TouchToken(cred, now)
                /\ IF establishment_id \notin DOMAIN establishments
                   THEN /\ response' = NotFound("update_establishment",
                                                "Estabelecimento nao encontrado", user_id)
                        /\ pending' = [pending EXCEPT ![slot] =
                               Answered("establishment", user_id, establishment_id, 404)]
                   ELSE LET est == establishments[establishment_id]
                        IN  IF OwnedByOther(est.owner_id, user_id, can_manage_all)
                            THEN /\ response' = Forbidden("update_establishment",
                                        "Voce nao pode editar este estabelecimento", user_id)
                                 /\ pending' = [pending EXCEPT ![slot] =
                                        Answered("establishment", user_id,
                                                 establishment_id, 403)]
                            ELSE /\ pending' = [pending EXCEPT ![slot] =
                                        [IdleUpdate EXCEPT
                                           !.busy = TRUE, !.kind = "establishment",
                                           !.user_id = user_id, !.id = establishment_id,
                                           !.loaded = est.owner_id,
                                           !.owner_id = Claim(est.owner_id, user_id),
                                           !.name = payload.name]]
                                 /\ UNCHANGED response

\* PUT /establishments/{establishment_id} from db.commit() on
UpdateEstablishmentCommit(slot) ==
    LET r == pending[slot]
        est == establishments[r.id]
    IN  /\ r.busy /\ r.kind = "establishment"
        /\ r.id \in DOMAIN establishments
        /\ establishments' = [establishments EXCEPT ![r.id] =
               [est EXCEPT !.owner_id = Flush(est.owner_id, r.loaded, r.owner_id),
                           !.name = IF r.name = UnsetStr THEN est.name ELSE r.name]]
        /\ response' = Resp("update_establishment", 200, "", None, r.user_id)
        /\ pending' = [pending EXCEPT ![slot] =
               Answered("establishment", r.user_id, r.id, 200)]
        /\ UNCHANGED <<credentialStore, events, nextEstId, nextEventId, taxonomy,
                       request>>

\* PUT /events/{event_id} with an empty body, up to its commit
UpdateEventRead(slot, cred, now, event_id) ==
    /\ ~pending[slot].busy /\ ~pending[slot].done
    /\ UNCHANGED <<catalog, request, users, nextToken>>
    /\ IF ~Authenticated(cred)
       THEN /\ response' = Unauthorized("update_event", cred)
            /\ pending' = [pending EXCEPT ![slot] = Answered("event", None, event_id, 401)]
            /\ UNCHANGED tokens
       ELSE LET user_id == current_user(cred)
                can_manage_all == has_global_editing_access(users[user_id])
            IN  /\ tokens' = TouchToken(cred, now)
                /\ IF event_id \notin DOMAIN events
                   THEN /\ response' = NotFound("update_event", "Evento nao encontrado",
                                                user_id)
                        /\ pending' = [pending EXCEPT ![slot] =
                               Answered("event", user_id, event_id, 404)]
                   ELSE LET event == events[event_id]
                        IN  IF OwnedByOther(event.user_id, user_id, can_manage_all)
                            THEN /\ response' = Forbidden("update_event",
                                        "Voce nao pode editar este evento", user_id)
                                 /\ pending' = [pending EXCEPT ![slot] =
                                        Answered("event", user_id, event_id, 403)]
                            ELSE /\ pending' = [pending EXCEPT ![slot] =
                                        [IdleUpdate EXCEPT
                                           !.busy = TRUE, !.kind = "event",
                                           !.user_id = user_id, !.id = event_id,
                                           !.loaded = event.user_id,
                                           !.owner_id = Claim(event.user_id, user_id)]]
                                 /\ UNCHANGED response

\* PUT /events/{event_id} from db.commit() on
UpdateEventCommit(slot) ==
    LET r == pending[slot]
        event == events[r.id]
    IN  /\ r.busy /\ r.kind = "event"
        /\ r.id \in DOMAIN events
        /\ events' = [events EXCEPT ![r.id] =
               [event EXCEPT !.user_id = Flush(event.user_id, r.loaded, r.owner_id)]]
        /\ response' = Resp("update_event", 200, "", None, r.user_id)
        /\ pending' = [pending EXCEPT ![slot] = Answered("event", r.user_id, r.id, 200)]
        /\ UNCHANGED <<credentialStore, establishments, nextEstId, nextEventId,
                       taxonomy, request>>

-----------------------------------------------------------------------------
(* Reads *)

\* "a or b" of a column that is a string or None, where it differs from the
\* value a itself only when a is None
or_stored(a, b) == IF a # NoneStr THEN a ELSE b

\* Python's "a or b" on Optional[str]
or_(a, b) == IF TruthyStr(a) THEN a ELSE b

\* serialize_event(e) of the row with id event_id; e.establishment is the row
\* establishment_id names, or None
serialize_event(event_id) ==
    LET e == events[event_id]
        has == e.establishment_id \in DOMAIN establishments
        establishment == establishments[e.establishment_id]
    IN  [id |-> event_id,
         establishment_id |-> e.establishment_id,
         establishment_name |->
             or_(e.establishment_name, IF has THEN establishment.name ELSE NoneStr),
         city |-> or_(e.city, IF has THEN establishment.city ELSE NoneStr),
         neighborhood |->
             or_(e.neighborhood, IF has THEN establishment.neighborhood ELSE NoneStr),
         street |-> or_(e.street, IF has THEN establishment.street ELSE NoneStr),
         number |-> or_(e.number, IF has THEN establishment.number ELSE NoneStr),
         genre_ids |-> e.genres,
         artist_ids |-> e.artists,
         user_id |-> e.user_id]

\* EstablishmentRead of the row with id establishment_id: the schema reads
\* user_id, an attribute the row does not have
EstablishmentRead(establishment_id) ==
    LET est == establishments[establishment_id]
    IN  [id |-> establishment_id, name |-> est.name, city |-> est.city,
         neighborhood |-> est.neighborhood, street |-> est.street,
         number |-> est.number, user_id |-> None]

\* a response with the rows read
Rows(op, user, body) == [Resp(op, 200, "", None, user) EXCEPT !.body = body]

\* GET /events/{event_id}
GetEvent(event_id) ==
    /\ UNCHANGED <<db, pending, request>>
    /\ IF event_id \notin DOMAIN events
       THEN response' = NotFound("get_event", "Evento nao encontrado", None)
       ELSE response' = Rows("get_event", None, {serialize_event(event_id)})

\* GET /events, with the default skip and limit: the table has fewer than 50 rows
ListEvents ==
    /\ UNCHANGED <<db, pending, request>>
    /\ response' = Rows("list_events", None,
                        {serialize_event(e) : e \in DOMAIN events})

\* a list that leaves out the filter on the caller
AllRows(user_id, owners) == DOMAIN owners

\* "if not has_global_editing_access(current_user):
\*      query = query.filter(Event.user_id == current_user.id)": the ids of the rows
\* the query returns, owners[i] being the owner column of row i
MyRows(user_id, owners) ==
    IF ~has_global_editing_access(users[user_id])
    THEN {i \in DOMAIN owners : owners[i] = user_id}
    ELSE DOMAIN owners

\* GET /my/events
ListMyEvents(cred, now) ==
    /\ UNCHANGED <<catalog, pending, request, users, nextToken>>
    /\ IF ~Authenticated(cred)
       THEN /\ response' = Unauthorized("list_my_events", cred)
            /\ UNCHANGED tokens
       ELSE LET user_id == current_user(cred)
                rows == MyRows(user_id, [i \in DOMAIN events |-> events[i].user_id])
            IN  /\ tokens' = TouchToken(cred, now)
                /\ response' = Rows("list_my_events", user_id,
                                    {serialize_event(e) : e \in rows})

\* GET /my/establishments
ListMyEstablishments(cred, now) ==
    /\ UNCHANGED <<catalog, pending, request, users, nextToken>>
    /\ IF ~Authenticated(cred)
       THEN /\ response' = Unauthorized("list_my_establishments", cred)
            /\ UNCHANGED tokens
       ELSE LET user_id == current_user(cred)
                rows == MyRows(user_id, [i \in DOMAIN establishments |->
                                            establishments[i].owner_id])
            IN  /\ tokens' = TouchToken(cred, now)
                /\ response' = Rows("list_my_establishments", user_id,
                                    {EstablishmentRead(i) : i \in rows})

-----------------------------------------------------------------------------
(* Catalog store routes: genres and artists (open routes).  A row is its id;  *)
(* the requests give names no other row has.                                 *)

\* the events table once the association rows of a deleted genre are gone
UnlinkGenre(genre_id) ==
    [e \in DOMAIN events |-> [events[e] EXCEPT !.genres = @ \ {genre_id}]]

UnlinkArtist(artist_id) ==
    [e \in DOMAIN events |-> [events[e] EXCEPT !.artists = @ \ {artist_id}]]

\* POST /genres
CreateGenre ==
    /\ nextGenreId <= MaxGenres
    /\ genres' = genres \cup {nextGenreId}
    /\ nextGenreId' = nextGenreId + 1
    /\ response' = Resp("create_genre", 201, "", None, None)
    /\ UNCHANGED <<credentialStore, establishments, events, nextEstId, nextEventId,
                   artists, nextArtistId, pending, request>>

\* DELETE /genres/{genre_id}
DeleteGenre(genre_id) ==
    /\ UNCHANGED <<credentialStore, establishments, nextEstId, nextEventId,
                   artists, nextArtistId, nextGenreId, pending, request>>
    /\ IF genre_id \notin genres
       THEN /\ response' = NotFound("delete_genre", "Genero nao encontrado", None)
            /\ UNCHANGED <<genres, events>>
       ELSE /\ genres' = genres \ {genre_id}
            /\ events' = UnlinkGenre(genre_id)
            /\ response' = Resp("delete_genre", 204, "", None, None)

\* POST /artists
CreateArtist ==
    /\ nextArtistId <= MaxArtists
    /\ artists' = artists \cup {nextArtistId}
    /\ nextArtistId' = nextArtistId + 1
    /\ response' = Resp("create_artist", 201, "", None, None)
    /\ UNCHANGED <<credentialStore, establishments, events, nextEstId, nextEventId,
                   genres, nextGenreId, pending, request>>

\* DELETE /artists/{artist_id}
DeleteArtist(artist_id) ==
    /\ UNCHANGED <<credentialStore, establishments, nextEstId, nextEventId,
                   genres, nextGenreId, nextArtistId, pending, request>>
    /\ IF artist_id \notin artists
       THEN /\ response' = NotFound("delete_artist", "Artista nao encontrado", None)
            /\ UNCHANGED <<artists, events>>
       ELSE /\ artists' = artists \ {artist_id}
            /\ events' = UnlinkArtist(artist_id)
            /\ response' = Resp("delete_artist", 204, "", None, None)

-----------------------------------------------------------------------------
(* Inputs *)

RawEmails == {<<"a", "@", "x">>, <<" ", "A", "@", "x">>, <<"R", "@", "x", " ">>}
Passwords == {"p", "q"}
Channel == {None, Empty} \cup TokenSpace
Creds == Channel \X Channel \X Channel
\* a bearer value alone
BearerCreds == {<<b, None, None>> : b \in Channel}

NoResponse == Resp("", 0, "", None, None)

\* no genre and no artist has been created
NoTaxonomy ==
    /\ genres = {}
    /\ artists = {}
    /\ nextGenreId = 1
    /\ nextArtistId = 1

InitEmpty ==
    /\ users = <<>>
    /\ tokens = <<>>
    /\ nextToken = 1
    /\ establishments = <<>>
    /\ events = <<>>
    /\ nextEstId = 1
    /\ nextEventId = 1
    /\ NoTaxonomy
    /\ pending = [s \in 1..MaxPending |-> Idle]
    /\ request = <<None, None, None>>
    /\ response = NoResponse

NextAuth ==
    \/ \E e \in RawEmails, p \in Passwords, now \in Times : Signup(e, p, now)
    \/ \E e \in RawEmails, p \in Passwords, now \in Times : Login(e, p, now)
    \/ \E c \in BearerCreds, now \in Times : AuthMe(c, now)
    \/ \E c \in BearerCreds : Logout(c)

SpecAuth == InitEmpty /\ [][NextAuth]_vars

-----------------------------------------------------------------------------
(* The catalog routes, from a database that holds three signed-up users     *)
(* (two ordinary ones and one with global editing access) and rows that     *)
(* predate the owner columns (ensure_*_columns adds them as NULL).          *)

Names == {"n1"}
\* the sessions were opened at time 0; the catalog requests arrive at time 1
CatalogTimes == {1}
EstIds == 1..MaxEst
EventIds == 1..MaxEvents
\* one session per user, and 4: a value that is no session
CatalogCreds == {<<b, None, None>> : b \in {1, 2, 3, 4}}
EstablishmentPayloads == [name : Names \cup {UnsetStr}]
EventPayloads ==
    [establishment_id : EstIds \cup {0, None, UnsetInt},
     genre_ids : {UnsetList}, artist_ids : {UnsetList}]

UserA == [email |-> <<"a", "@", "x">>, password_hash |-> hash_password("p")]
UserB == [email |-> <<"b", "@", "x">>, password_hash |-> hash_password("q")]
UserR == [email |-> <<"r", "@", "x">>, password_hash |-> hash_password("p")]
UserO == [email |-> OWNER_EMAIL, password_hash |-> hash_password("p")]

LegacyEstablishments == {<<>>, (1 :> Establishment("n0", None))}
LegacyEvents(ests) ==
    {<<>>} \cup {(1 :> Event(e, None)) : e \in {None} \cup DOMAIN ests}

InitCatalog ==
    /\ users \in {<<UserA, UserB, UserR>>, <<UserA, UserB, UserO>>}
    /\ tokens = [t \in 1..3 |-> [user_id |-> t, last_used_at |-> 0]]
    /\ nextToken = 4
    /\ establishments \in LegacyEstablishments
    /\ events \in LegacyEvents(establishments)
    /\ nextEstId = Cardinality(DOMAIN establishments) + 1
    /\ nextEventId = Cardinality(DOMAIN events) + 1
    /\ NoTaxonomy
    /\ pending = [s \in 1..MaxPending |-> Idle]
    /\ request = <<None, None, None>>
    /\ response = NoResponse

NextCatalog ==
    \/ \E c \in CatalogCreds, now \in CatalogTimes, n \in Names :
           CreateEstablishment(c, now, n)
    \/ \E c \in CatalogCreds, now \in CatalogTimes, i \in EstIds, p \in EstablishmentPayloads :
           UpdateEstablishment(c, now, i, p)
    \/ \E c \in CatalogCreds, now \in CatalogTimes, i \in EstIds :
           DeleteEstablishment(c, now, i)
    \/ \E c \in CatalogCreds, now \in CatalogTimes, e \in EstIds \cup {0, None} :
           CreateEvent(c, now, e)
    \/ \E c \in CatalogCreds, now \in CatalogTimes, i \in EventIds, p \in EventPayloads :
           UpdateEvent(c, now, i, p)
    \/ \E c \in CatalogCreds, now \in CatalogTimes, i \in EventIds :
           DeleteEvent(c, now, i)

SpecCatalog == InitCatalog /\ [][NextCatalog]_vars

-----------------------------------------------------------------------------
(* Concurrent signups: each request runs its SELECT and its INSERT as two    *)
(* steps, other requests in between.                                        *)

NextSignupRace ==
    \/ \E s \in 1..MaxPending, e \in RawEmails, p \in Passwords : SignupQuery(s, e, p)
    \/ \E s \in 1..MaxPending, now \in Times : SignupCommit(s, now)

SpecSignupRace == InitEmpty /\ [][NextSignupRace]_vars

-----------------------------------------------------------------------------
(* Credential lookup: one request, with every combination of the three      *)
(* channels, served by /auth/me and /auth/logout against two open sessions; *)
(* 3 is a value that is no session.                                         *)

InitLookup ==
    /\ users = <<UserA, UserB>>
    /\ tokens = [t \in 1..2 |-> [user_id |-> t, last_used_at |-> 0]]
    /\ nextToken = 3
    /\ establishments = <<>>
    /\ events = <<>>
    /\ nextEstId = 1
    /\ nextEventId = 1
    /\ NoTaxonomy
    /\ pending = [s \in 1..MaxPending |-> Idle]
    /\ request \in Creds
    /\ response = NoResponse

NextLookup ==
    \/ \E now \in Times : AuthMe(request, now)
    \/ Logout(request)

SpecLookup == InitLookup /\ [][NextLookup]_vars

-----------------------------------------------------------------------------
(* Links of an event: two users, the first of whom has created one event    *)
(* with no establishment, no genre and no artist; genres and artists come   *)
(* and go, and the event is updated with every kind of genre_ids/artist_ids *)
(* (absent, null, empty, known ids, unknown ids, an id twice).               *)

GenreIds == 1..(MaxGenres + 1)
ArtistIds == 1..(MaxArtists + 1)
GenreIdLists ==
    {<<>>, <<1>>, <<2>>, <<1, 2>>, <<1, 1>>, <<MaxGenres + 1>>, <<2, MaxGenres + 1>>}
ArtistIdLists == {<<>>, <<1>>, <<MaxArtists + 1>>}
LinkCreds == {<<b, None, None>> : b \in {1, 2}}
LinkPayloads ==
    [establishment_id : {UnsetInt},
     genre_ids : GenreIdLists \cup {UnsetList, NullList},
     artist_ids : ArtistIdLists \cup {UnsetList}]

InitLinks ==
    /\ users = <<UserA, UserB>>
    /\ tokens = [t \in 1..2 |-> [user_id |-> t, last_used_at |-> 0]]
    /\ nextToken = 3
    /\ establishments = <<>>
    /\ events = (1 :> Event(None, 1))
    /\ nextEstId = 1
    /\ nextEventId = 2
    /\ NoTaxonomy
    /\ pending = [s \in 1..MaxPending |-> Idle]
    /\ request = <<None, None, None>>
    /\ response = NoResponse

NextLinks ==
    \/ CreateGenre
    \/ \E g \in GenreIds : DeleteGenre(g)
    \/ CreateArtist
    \/ \E a \in ArtistIds : DeleteArtist(a)
    \/ \E c \in LinkCreds, now \in CatalogTimes, p \in LinkPayloads :
           UpdateEvent(c, now, 1, p)

SpecLinks == InitLinks /\ [][NextLinks]_vars

-----------------------------------------------------------------------------
(* Reads of an event: one user, one event with every combination of absent,  *)
(* empty and filled location columns, and no establishment, an establishment *)
(* the event is not linked to, or one it is linked to.                      *)

OwnText == {NoneStr, "", "e"}
OwnWord == {NoneStr, "e"}
TheirText == {NoneStr, "", "s"}
TheirWord == {NoneStr, "s"}

\* the user's session, and 2: a value that is no session
ResolverCreds == {<<b, None, None>> : b \in {1, 2}}

ResolverEstablishments ==
    [name : {"", "s"}, owner_id : {1}, city : TheirText, neighborhood : TheirWord,
     street : TheirWord, number : TheirWord]

ResolverEvents(ests) ==
    [establishment_id : {None} \cup DOMAIN ests, user_id : {1},
     establishment_name : OwnText, city : OwnText, neighborhood : OwnWord,
     street : OwnWord, number : OwnWord, genres : {{}}, artists : {{}}]

InitResolver ==
    /\ users = <<UserA>>
    /\ tokens = (1 :> [user_id |-> 1, last_used_at |-> 0])
    /\ nextToken = 2
    /\ establishments \in {<<>>} \cup {(1 :> est) : est \in ResolverEstablishments}
    /\ events \in {(1 :> ev) : ev \in ResolverEvents(establishments)}
    /\ nextEstId = Cardinality(DOMAIN establishments) + 1
    /\ nextEventId = 2
    /\ NoTaxonomy
    /\ pending = [s \in 1..MaxPending |-> Idle]
    /\ request = <<None, None, None>>
    /\ response = NoResponse

NextResolver ==
    \/ \E i \in 1..2 : GetEvent(i)
    \/ ListEvents
    \/ \E c \in ResolverCreds, now \in CatalogTimes : ListMyEvents(c, now)

SpecResolver == InitResolver /\ [][NextResolver]_vars

-----------------------------------------------------------------------------
(* Deletes and the /my lists, from every database of up to MaxRows           *)
(* establishments and MaxRows events, owned by nobody or by one of the two   *)
(* ordinary users, each event linked to an establishment or to none; the    *)
(* third user has global editing access.  The sessions were last used at    *)
(* the time the requests arrive.                                            *)

RowIds == 1..MaxRows
RowOwners == {None, 1, 2}

Tables(rows) == UNION {[D -> rows] : D \in SUBSET RowIds}

InitRows ==
    /\ users = <<UserA, UserB, UserR>>
    /\ tokens = [t \in 1..3 |-> [user_id |-> t, last_used_at |-> 1]]
    /\ nextToken = 4
    /\ establishments \in Tables({Establishment("n0", o) : o \in RowOwners})
    /\ events \in Tables({Event(e, u) : e \in {None} \cup DOMAIN establishments,
                                        u \in RowOwners})
    /\ nextEstId = MaxRows + 1
    /\ nextEventId = MaxRows + 1
    /\ NoTaxonomy
    /\ pending = [s \in 1..MaxPending |-> Idle]
    /\ request = <<None, None, None>>
    /\ response = NoResponse

NextRows ==
    \/ \E c \in CatalogCreds, now \in CatalogTimes, i \in RowIds :
           DeleteEstablishment(c, now, i)
    \/ \E c \in CatalogCreds, now \in CatalogTimes, i \in RowIds :
           DeleteEvent(c, now, i)
    \/ \E c \in CatalogCreds, now \in CatalogTimes : ListMyEvents(c, now)
    \/ \E c \in CatalogCreds, now \in CatalogTimes : ListMyEstablishments(c, now)

SpecRows == InitRows /\ [][NextRows]_vars

-----------------------------------------------------------------------------
(* Concurrent updates: two ordinary users, an establishment and an event     *)
(* that predate the owner columns, and one update request per slot.         *)

InitClaimRace ==
    /\ users = <<UserA, UserB>>
    /\ tokens = [t \in 1..2 |-> [user_id |-> t, last_used_at |-> 0]]
    /\ nextToken = 3
    /\ establishments = (1 :> Establishment("n0", None))
    /\ events = (1 :> Event(None, None))
    /\ nextEstId = 2
    /\ nextEventId = 2
    /\ NoTaxonomy
    /\ pending = [s \in 1..MaxPending |-> IdleUpdate]
    /\ request = <<None, None, None>>
    /\ response = NoResponse

\* the two users' sessions, and 3: a value that is no session
RaceCreds == {<<b, None, None>> : b \in 1..3}
\* the row that exists, and 2: the id of no row
RaceIds == 1..2

NextClaimRace ==
    \/ \E s \in 1..MaxPending, c \in RaceCreds, now \in CatalogTimes, i \in RaceIds,
          p \in EstablishmentPayloads : UpdateEstablishmentRead(s, c, now, i, p)
    \/ \E s \in 1..MaxPending : UpdateEstablishmentCommit(s)
    \/ \E s \in 1..MaxPending, c \in RaceCreds, now \in CatalogTimes, i \in RaceIds :
           UpdateEventRead(s, c, now, i)
    \/ \E s \in 1..MaxPending : UpdateEventCommit(s)

SpecClaimRace == InitClaimRace /\ [][NextClaimRace]_vars

-----------------------------------------------------------------------------
(* Removal of users: the catalog routes, logins and /auth/me, from the       *)
(* database of SpecCatalog with the third user's session not yet opened,    *)
(* while users are removed.  No signup is served: the ids of users that     *)
(* are left are no longer 1..n.                                             *)

InitRemoval ==
    /\ users \in {<<UserA, UserB, UserR>>}
    /\ tokens = [t \in 1..2 |-> [user_id |-> t, last_used_at |-> 0]]
    /\ nextToken = 3
    /\ establishments \in LegacyEstablishments
    /\ events \in LegacyEvents(establishments)
    /\ nextEstId = Cardinality(DOMAIN establishments) + 1
    /\ nextEventId = Cardinality(DOMAIN events) + 1
    /\ NoTaxonomy
    /\ pending = [s \in 1..MaxPending |-> Idle]
    /\ request = <<None, None, None>>
    /\ response = NoResponse

NextRemoval ==
    \/ \E u \in 1..3 : DeleteUser(u)
    \/ \E e \in RawEmails, p \in Passwords, now \in CatalogTimes : Login(e, p, now)
    \/ \E c \in CatalogCreds, now \in CatalogTimes : AuthMe(c, now)
    \/ NextCatalog

SpecRemoval == InitRemoval /\ [][NextRemoval]_vars

-----------------------------------------------------------------------------
(* Claims about the credential store *)

\* the credential the specification says a request is authenticated by: the first
\* non-empty value among bearer header, X-Session-Token header, token parameter
FirstNonEmpty(cred) ==
    IF cred[1] \notin {None, Empty} THEN cred[1]
    ELSE IF cred[2] \notin {None, Empty} THEN cred[2]
    ELSE cred[3]

Supplied(cred) == FirstNonEmpty(cred) \notin {None, Empty}

\* C5 (multiple sessions): a successful signup or login issues a token that was not
\* in the store, for the user it answers for, and leaves every token already there
\* as it was; a logout with token T1 removes T1 and no other token; a token leaves
\* the store only through a successful logout and never comes back; and /auth/me
\* answers 200 with the token's user exactly for the tokens in the store, so T1 is
\* refused after logout(T1) while the user's other tokens keep working.
C5_MultipleSessions ==
    [][/\ (response'.op \in {"signup", "login"} /\ response'.status \in {200, 201}) =>
            /\ response'.token \notin DOMAIN tokens
            /\ DOMAIN tokens' = DOMAIN tokens \cup {response'.token}
            /\ tokens'[response'.token].user_id = response'.user
            /\ \A t \in DOMAIN tokens : tokens'[t] = tokens[t]
       /\ response'.op = "logout" =>
            \A c \in BearerCreds : (Logout(c) /\ Supplied(c)) =>
                /\ response'.status = 200
                /\ DOMAIN tokens' = DOMAIN tokens \ {FirstNonEmpty(c)}
                /\ \A t \in DOMAIN tokens' : tokens'[t] = tokens[t]
       /\ (\E t \in DOMAIN tokens : t \notin DOMAIN tokens') =>
            response'.op = "logout" /\ response'.status = 200
       /\ \A t \in 1..(nextToken - 1) : t \notin DOMAIN tokens => t \notin DOMAIN tokens'
       /\ response'.op = "auth_me" =>
            \A c \in BearerCreds, now \in Times : AuthMe(c, now) =>
                IF FirstNonEmpty(c) \in DOMAIN tokens
                THEN /\ response'.status = 200
                     /\ response'.user = tokens[FirstNonEmpty(c)].user_id
                ELSE response'.status = 401]_vars

\* C5 witness: one user, whose first token has been logged out and whose second
\* token has just authenticated a request
C5_Witness ==
    /\ Len(users) = 1
    /\ nextToken >= 3
    /\ 1 \notin DOMAIN tokens
    /\ 2 \in DOMAIN tokens
    /\ response.op = "auth_me" /\ response.status = 200 /\ response.user = 1

\* C6: /auth/me (authenticate alone) answers 401 and changes nothing when no token
\* is supplied or the supplied token is not in the store; otherwise it answers with
\* the user the token was issued to and sets that token's last-used time to the
\* time of the request, changing no other token, no user and no catalog row.
C6_Authenticate ==
    [][response'.op = "auth_me" =>
        \A now \in Times : AuthMe(request, now) =>
            LET t == FirstNonEmpty(request)
            IN  IF ~Supplied(request) \/ t \notin DOMAIN tokens
                THEN /\ response'.status = 401
                     /\ UNCHANGED db
                ELSE /\ response'.status = 200
                     /\ response'.user = tokens[t].user_id
                     /\ DOMAIN tokens' = DOMAIN tokens
                     /\ tokens'[t] = [user_id |-> tokens[t].user_id, last_used_at |-> now]
                     /\ \A o \in DOMAIN tokens \ {t} : tokens'[o] = tokens[o]
                     /\ UNCHANGED <<users, nextToken, catalog>>]_vars

\* C6 witness: a request authenticated by token 2, which it stamped, token 1 untouched
C6_Witness ==
    /\ response.op = "auth_me" /\ response.status = 200 /\ response.user = 2
    /\ FirstNonEmpty(request) = 2
    /\ tokens[2].last_used_at = 1
    /\ 1 \in DOMAIN tokens /\ tokens[1].last_used_at = 0

\* C7: the token a request is authenticated by is the first non-empty value among
\* bearer header, X-Session-Token header and token parameter: the request succeeds,
\* as that token's user, exactly when that value is in the store, whatever the
\* later channels hold.
C7_LookupPrecedence ==
    response.op = "auth_me" =>
        IF Supplied(request) /\ FirstNonEmpty(request) \in DOMAIN tokens
        THEN /\ response.status = 200
             /\ response.user = tokens[FirstNonEmpty(request)].user_id
        ELSE response.status = 401

\* C7 witness: a bearer value that is no session refused although the
\* X-Session-Token header holds an open session
C7_Witness ==
    /\ response.op = "auth_me" /\ response.status = 401
    /\ request[1] = 3 /\ request[2] \in DOMAIN tokens

\* C8 as claimed: logout answers 401 only when no channel carries a credential, and
\* otherwise succeeds with the supplied token gone from the store.
C8_LogoutAnyChannel ==
    response.op = "logout" =>
        IF Supplied(request)
        THEN response.status = 200 /\ FirstNonEmpty(request) \notin DOMAIN tokens
        ELSE response.status = 401

\* C9 as claimed: no two users share a normalized e-mail, and a signup that is
\* rejected is answered 400 (Conflict).
C9_DuplicateIsConflict ==
    /\ \A i, j \in DOMAIN users :
           normalize_email(users[i].email) = normalize_email(users[j].email) => i = j
    /\ response.op = "signup" => response.status \in {201, 400}

\* C10: a login that names no user and a login with a wrong password get the same
\* answer, 401 with one fixed detail and no token, and change nothing.
C10_LoginFailuresAlike ==
    [][response'.op = "login" =>
        \A e \in RawEmails, p \in Passwords, now \in Times : Login(e, p, now) =>
            LET known == {i \in DOMAIN users : users[i].email = normalize_email(e)}
            IN  (known = {} \/ \A i \in known : users[i].password_hash # hash_password(p))
                => /\ response' = Resp("login", 401, "Credenciais invalidas", None, None)
                   /\ UNCHANGED db]_vars

\* C10 witness: a refused login when every e-mail that can be tried belongs to a
\* user, so the refusal is for a wrong password
C10_Witness ==
    /\ response.op = "login" /\ response.status = 401
    /\ \A e \in RawEmails : \E i \in DOMAIN users : users[i].email = normalize_email(e)

-----------------------------------------------------------------------------
(* Claims about the access policy and the catalog store *)

\* the access policy of the specification
can_mutate(resource_owner_id, user_id) ==
    \/ resource_owner_id = None
    \/ resource_owner_id = user_id
    \/ has_global_editing_access(users[user_id])

\* the establishment a create/update of an event names exists and the caller may
\* not mutate it
EstablishmentRefused(establishment_id, user_id) ==
    /\ Truthy(establishment_id) /\ establishment_id # UnsetInt
    /\ establishment_id \in DOMAIN establishments
    /\ ~can_mutate(establishments[establishment_id].owner_id, user_id)

C2_ClaimOnWrite ==
    [][/\ response'.op = "update_establishment" =>
            \A c \in CatalogCreds, now \in CatalogTimes, i \in EstIds,
               p \in EstablishmentPayloads :
                (UpdateEstablishment(c, now, i, p) /\ Authenticated(c)
                     /\ i \in DOMAIN establishments) =>
                    LET u == current_user(c)
                        o == establishments[i].owner_id
                    IN  /\ (o = None /\ response'.status = 200)
                               => establishments'[i].owner_id = u
                        /\ (o # None /\ o # u /\ ~has_global_editing_access(users[u]))
                               => response'.status = 403 /\ UNCHANGED catalog
       /\ response'.op = "update_event" =>
            \A c \in CatalogCreds, now \in CatalogTimes, i \in EventIds,
               p \in EventPayloads :
                (UpdateEvent(c, now, i, p) /\ Authenticated(c) /\ i \in DOMAIN events) =>
                    LET u == current_user(c)
                        o == events[i].user_id
                        e == p.establishment_id
                    IN  /\ (o = None /\ response'.status = 200)
                               => events'[i].user_id = u
                        /\ (response'.status = 200 /\ e \in DOMAIN establishments
                              /\ establishments[e].owner_id = None)
                               => establishments'[e].owner_id = u
                        /\ (o # None /\ o # u /\ ~has_global_editing_access(users[u]))
                               => response'.status = 403 /\ UNCHANGED catalog
       /\ response'.op = "create_event" =>
            \A c \in CatalogCreds, now \in CatalogTimes, e \in EstIds \cup {0, None} :
                (CreateEvent(c, now, e) /\ Authenticated(c)) =>
                    /\ (response'.status = 201 /\ e \in DOMAIN establishments
                          /\ establishments[e].owner_id = None)
                           => establishments'[e].owner_id = current_user(c)
                    /\ response'.status = 201
                           => events'[nextEventId].user_id = current_user(c)]_vars

\* C2 witness: the Establishment that predates the owner column, claimed by user 1
\* (its name is still the old one), and user 2's update of it refused
C2_Witness ==
    /\ response = Forbidden("update_establishment",
                            "Voce nao pode editar este estabelecimento", 2)
    /\ DOMAIN establishments = {1}
    /\ establishments[1] = Establishment("n0", 1)

\* C3: once an Establishment's owner_id or an Event's user_id is set, no request
\* changes it or sets it back to null while the row exists.
C3_OwnershipNeverReassigned ==
    [][/\ \A i \in DOMAIN establishments \cap DOMAIN establishments' :
              establishments[i].owner_id # None
                  => establishments'[i].owner_id = establishments[i].owner_id
       /\ \A i \in DOMAIN events \cap DOMAIN events' :
              events[i].user_id # None => events'[i].user_id = events[i].user_id]_vars

\* C3 witness: user 3, who has global editing access, has updated the Event and the
\* Event still belongs to user 1
C3_Witness ==
    /\ response = Resp("update_event", 200, "", None, 3)
    /\ DOMAIN events = {1}
    /\ events[1].user_id = 1

\* C4 as claimed: a create of an Event that gives an establishment_id answers 404
\* when no such Establishment exists, 403 when it belongs to another user and the
\* caller has no global editing access, and otherwise succeeds, the new Event owned
\* by the caller and the Establishment claimed if it was unclaimed; a failed create
\* adds no Event and claims no Establishment.
C4_CreateEvent ==
    [][response'.op = "create_event" =>
        \A c \in CatalogCreds, now \in CatalogTimes, e \in EstIds \cup {0, None} :
            (CreateEvent(c, now, e) /\ Authenticated(c)) =>
                LET u == current_user(c)
                IN  IF e # None /\ e \notin DOMAIN establishments
                    THEN response'.status = 404 /\ UNCHANGED catalog
                    ELSE IF e # None /\ ~can_mutate(establishments[e].owner_id, u)
                    THEN response'.status = 403 /\ UNCHANGED catalog
                    ELSE /\ response'.status = 201
                         /\ DOMAIN events' = DOMAIN events \cup {nextEventId}
                         /\ nextEventId \notin DOMAIN events
                         /\ events'[nextEventId].user_id = u
                         /\ \A i \in DOMAIN events : events'[i] = events[i]
                         /\ e # None =>
                                establishments'[e].owner_id =
                                    IF establishments[e].owner_id = None THEN u
                                    ELSE establishments[e].owner_id]_vars

-----------------------------------------------------------------------------
(* Claims about links, reads and deletes *)

\* C11: a successful update of an Event whose request gives a list as genre_ids
\* (resp. artist_ids) leaves the Event linked to exactly the existing Genres
\* (Artists) whose ids are in the list, so unknown ids are dropped and [] clears
\* the links; when the field is absent the Event's links are as they were.
C11_LinkReplacement ==
    [][response'.op = "update_event" =>
        \A c \in LinkCreds, now \in CatalogTimes, p \in LinkPayloads :
            (UpdateEvent(c, now, 1, p) /\ response'.status = 200) =>
                /\ p.genre_ids \in GenreIdLists =>
                       events'[1].genres =
                           {g \in genres : \E k \in DOMAIN p.genre_ids : p.genre_ids[k] = g}
                /\ p.genre_ids = UnsetList => events'[1].genres = events[1].genres
                /\ p.artist_ids \in ArtistIdLists =>
                       events'[1].artists =
                           {a \in artists : \E k \in DOMAIN p.artist_ids : p.artist_ids[k] = a}
                /\ p.artist_ids = UnsetList => events'[1].artists = events[1].artists]_vars

\* C11 witness: both genres exist, an update has left the Event with genre 2 alone
\* and has not touched its artist link
C11_Witness ==
    /\ response.op = "update_event" /\ response.status = 200
    /\ genres = {1, 2}
    /\ events[1].genres = {2}
    /\ events[1].artists = {1}

\* the value the specification gives a location field of the view: the Event's
\* own value if non-empty, else the linked Establishment's value if the Event has
\* an Establishment, else null
Resolved(own, linked, theirs) ==
    IF own \notin {NoneStr, ""} THEN own
    ELSE IF linked THEN theirs
    ELSE NoneStr

EventReads == {"get_event", "list_events", "list_my_events"}

\* C12: every view an Event read returns has, for each of establishment_name,
\* city, neighborhood, street and number, the Event's own value if that is
\* non-empty, else the linked Establishment's value if the Event has an
\* Establishment, else null; and the read changes no stored Event or Establishment.
C12_EventResolver ==
    [][(response'.op \in EventReads /\ response'.status = 200) =>
        /\ UNCHANGED <<establishments, events>>
        /\ \A v \in response'.body :
               LET e == events[v.id]
                   linked == e.establishment_id # None
                   est == establishments[e.establishment_id]
               IN  /\ v.establishment_name =
                          Resolved(e.establishment_name, linked, est.name)
                   /\ v.city = Resolved(e.city, linked, est.city)
                   /\ v.neighborhood = Resolved(e.neighborhood, linked, est.neighborhood)
                   /\ v.street = Resolved(e.street, linked, est.street)
                   /\ v.number = Resolved(e.number, linked, est.number)]_vars

\* C12 witness: a read of an Event whose own city is the empty string has returned
\* the Establishment's city, and its own street; the stored city is still empty
C12_Witness ==
    /\ response.op = "get_event" /\ response.status = 200
    /\ events[1].city = "" /\ events[1].street = "e"
    /\ \E v \in response.body : v.city = "s" /\ v.street = "e"

\* C13: a successful delete of Establishment i removes it and every Event that had
\* establishment_id = i (the Events are gone, not kept with a null link), and
\* leaves every other Event, linked to another Establishment or to none, as it was.
C13_CascadeDelete ==
    [][(response'.op = "delete_establishment" /\ response'.status = 204) =>
        \A c \in CatalogCreds, now \in CatalogTimes, i \in RowIds :
            DeleteEstablishment(c, now, i) =>
                /\ i \notin DOMAIN establishments'
                /\ DOMAIN events' \subseteq DOMAIN events
                /\ \A e \in DOMAIN events :
                       IF events[e].establishment_id = i
                       THEN e \notin DOMAIN events'
                       ELSE e \in DOMAIN events' /\ events'[e] = events[e]]_vars

\* C13 witness: Establishment 1 has just been deleted, and what is left is
\* Establishment 2 with Event 2, which is linked to it
C13_Witness ==
    /\ response.op = "delete_establishment" /\ response.status = 204
    /\ DOMAIN establishments = {2}
    /\ DOMAIN events = {2}
    /\ events[2].establishment_id = 2

\* C16: /my/events and /my/establishments answer 401 without a valid session; for
\* a caller without global editing access they return exactly the Events whose
\* user_id (Establishments whose owner_id) is the caller's id, so nothing owned by
\* another user and nothing unclaimed; for a caller with global editing access
\* they return every Event (Establishment).
C16_MyLists ==
    [][/\ response'.op = "list_my_events" =>
            \A c \in CatalogCreds, now \in CatalogTimes : ListMyEvents(c, now) =>
                IF token_value(c) \notin DOMAIN tokens
                THEN response'.status = 401 /\ response'.body = {}
                ELSE LET u == tokens[token_value(c)].user_id
                     IN  /\ response'.status = 200
                         /\ {v.id : v \in response'.body} =
                                IF has_global_editing_access(users[u])
                                THEN DOMAIN events
                                ELSE {e \in DOMAIN events : events[e].user_id = u}
       /\ response'.op = "list_my_establishments" =>
            \A c \in CatalogCreds, now \in CatalogTimes : ListMyEstablishments(c, now) =>
                IF token_value(c) \notin DOMAIN tokens
                THEN response'.status = 401 /\ response'.body = {}
                ELSE LET u == tokens[token_value(c)].user_id
                     IN  /\ response'.status = 200
                         /\ {v.id : v \in response'.body} =
                                IF has_global_editing_access(users[u])
                                THEN DOMAIN establishments
                                ELSE {i \in DOMAIN establishments :
                                         establishments[i].owner_id = u}]_vars

\* C16 witness: of two Events, one of user 2 and one unclaimed, user 1 is shown none
C16_Witness ==
    /\ response.op = "list_my_events" /\ response.status = 200 /\ response.user = 1
    /\ response.body = {}
    /\ DOMAIN events = {1, 2}
    /\ events[1].user_id = 2 /\ events[2].user_id = None

\* C18 as claimed: no request of a caller without global editing access removes an
\* Event that belongs to another user.
C18_OwnCheckOnly ==
    [][\A e \in DOMAIN events :
          (e \notin DOMAIN events' /\ events[e].user_id # None
             /\ events[e].user_id # response'.user)
          => has_global_editing_access(users[response'.user])]_vars

\* the owner column of the row a slot's request updates
OwnerOf(r) ==
    IF r.kind = "establishment" THEN establishments[r.id].owner_id
    ELSE events[r.id].user_id

\* two finished update requests on the same row by two distinct users, no other
\* request having been made
Contenders ==
    {<<s, t>> \in (1..MaxPending) \X (1..MaxPending) :
        /\ s # t
        /\ pending[s].done /\ pending[t].done
        /\ pending[s].status # 401 /\ pending[t].status # 401
        /\ pending[s].status # 404 /\ pending[t].status # 404
        /\ pending[s].kind = pending[t].kind
        /\ pending[s].user_id # pending[t].user_id
        /\ \A u \in 1..MaxPending : u \in {s, t} \/ pending[u] = IdleUpdate}

\* C14 as claimed: a request answered 401, 403, 404 or with a store error leaves
\* every table as it was, and a signup that adds a user adds the session token it
\* answers with.
C14_AtomicRequests ==
    [][/\ response'.status \in {401, 403, 404, 500} => UNCHANGED db
       /\ Len(users') > Len(users) =>
              /\ response'.token \in DOMAIN tokens'
              /\ tokens'[response'.token].user_id = Len(users')]_vars

====
